---- MODULE Spec2Model ----
(***************************************************************************)
(* ConsultX backend: the message-classification and session-aggregation    *)
(* pipeline (SentimentAnalyzer, RiskClassifier, SessionTracker).           *)
(*                                                                         *)
(* Conventions of the model                                                *)
(*  - a text is the sequence of its word tokens (what _WORD_RE.findall     *)
(*    returns); the lowered text is the tokens joined by single blanks, so *)
(*    a phrase is a substring when its words occur consecutively;          *)
(*  - a float with three decimals is an integer number of thousandths; the *)
(*    running risk score, which may hold an unrounded third, is an integer *)
(*    number of 1/3000;                                                    *)
(*  - a sorted list of distinct strings is a set; None is the string       *)
(*    "None";                                                              *)
(*  - SessionStorage (storage.py) is the persistence collaborator: one     *)
(*    table per variable, every storage call atomic.                       *)
(***************************************************************************)
EXTENDS Integers, Sequences, FiniteSets, TLC

VARIABLES
    sessions,      \* storage: session id -> SessionRecord or None
    messages,      \* storage: session id -> list of MessageRecord (insertion order)
    buffers,       \* storage: session id -> BufferSnapshot or None
    metrics,       \* storage: session id -> SessionMetrics or None
    config,        \* the tracker's construction: rag module present, adapters
    last,          \* the last orchestrator call: operation, target, outcome, returned value
    threads,       \* the request handler's threads (concurrent dispatch)
    cls            \* one call of an analysis component (assess, score, ...), stage by stage

vars == <<sessions, messages, buffers, metrics, config, last, threads, cls>>

store == <<sessions, messages, buffers, metrics>>

None == "None"

----------------------------------------------------------------------------
(* Bounds of the model *)

\* most messages persisted over all sessions
MaxMsgs == 3

\* the tracker's buffer_size (20 by default), scaled down
BufferSize == 2

SessionIds == {"s1", "s2"}

ThreadIds == {"t1", "t2"}

\* the adapters a tracker may be built with, in registration order
AdapterNames == <<"a1", "a2">>

----------------------------------------------------------------------------
(* models.py enumerations *)

RiskTier == <<"OK", "CAUTION", "HIGH", "CRISIS">>

Tiers == {RiskTier[i] : i \in 1..Len(RiskTier)}

SentimentBand == <<"POSITIVE", "NEUTRAL", "NEGATIVE">>

Bands == {SentimentBand[i] : i \in 1..Len(SentimentBand)}

SenderRole == {"USER", "ASSISTANT"}

\* analysismodel.py _RISK_SEVERITY
CLS_RISK_SEVERITY == [t \in Tiers |->
    CASE t = "OK" -> 0 [] t = "CAUTION" -> 1 [] t = "HIGH" -> 2 [] t = "CRISIS" -> 3]

\* session_tracking.py RISK_SEVERITY
RISK_SEVERITY == [t \in Tiers |->
    CASE t = "OK" -> 0 [] t = "CAUTION" -> 1 [] t = "HIGH" -> 2 [] t = "CRISIS" -> 3]

----------------------------------------------------------------------------
(* Arithmetic helpers *)

Min(a, b) == IF a <= b THEN a ELSE b

Max(a, b) == IF a >= b THEN a ELSE b

\* round(num / den) to the nearest integer, ties to even (Python's round), den > 0
RoundDiv(num, den) ==
    LET q == num \div den
        r == num % den
    IN  IF 2 * r < den THEN q
        ELSE IF 2 * r > den THEN q + 1
        ELSE IF q % 2 = 0 THEN q ELSE q + 1

RECURSIVE SumSeq(_)
SumSeq(s) == IF s = <<>> THEN 0 ELSE Head(s) + SumSeq(Tail(s))

Range(s) == {s[i] : i \in 1..Len(s)}

----------------------------------------------------------------------------
(* SentimentAnalyzer *)

POSITIVE_WORDS == {"calm", "hope", "relief", "grateful", "progress", "better",
    "supported", "proud", "strong", "encouraged", "improving", "relaxed"}

NEGATIVE_WORDS == {"sad", "angry", "upset", "anxious", "stressed", "scared",
    "lonely", "hopeless", "worthless", "tired", "empty", "numb", "depressed",
    "afraid", "ashamed", "guilty", "fail", "failure", "broken", "hurt"}

NEGATIONS == {"not", "never", "no", "hardly", "barely"}

\* str.lower on a token: the capitalised tokens of the texts below
Lower(tok) ==
    CASE tok = "I" -> "i"
      [] tok = "I'm" -> "i'm"
      [] tok = "Not" -> "not"
      [] tok = "Calm" -> "calm"
      [] OTHER -> tok

\* [token.lower() for token in _WORD_RE.findall(text)]
Tokens(text) == [i \in 1..Len(text) |-> Lower(text[i])]

\* the signed unit a token adds to score (0 when it is in neither lexicon)
\* the guard idx > 0 is left out: tokens[-1] is the last token
Modifier_wraps(toks, idx) ==
    IF toks[IF idx > 1 THEN idx - 1 ELSE Len(toks)] \in NEGATIONS THEN -1 ELSE 1

Modifier(toks, idx) ==
    IF idx > 1 /\ toks[idx - 1] \in NEGATIONS THEN -1 ELSE 1

Contribution(toks, idx) ==
    IF toks[idx] \in POSITIVE_WORDS THEN Modifier(toks, idx)
    ELSE IF toks[idx] \in NEGATIVE_WORDS THEN 0 - Modifier(toks, idx)
    ELSE 0

Matched(toks, idx) == toks[idx] \in POSITIVE_WORDS \cup NEGATIVE_WORDS

\* SentimentAnalyzer.score: score in thousandths, band, matched tokens
score(text) ==
    LET toks  == Tokens(text)
        sum   == SumSeq([i \in 1..Len(toks) |-> Contribution(toks, i)])
        total == Cardinality({i \in 1..Len(toks) : Matched(toks, i)})
        band  == IF total = 0 THEN "NEUTRAL"
                 ELSE IF 10 * sum > total THEN "POSITIVE"
                 ELSE IF 10 * sum < 0 - total THEN "NEGATIVE"
                 ELSE "NEUTRAL"
    IN  [score  |-> IF total = 0 THEN 0 ELSE RoundDiv(1000 * sum, total),
         band   |-> band,
         tokens |-> SelectSeq(toks, LAMBDA t : t \in POSITIVE_WORDS \cup NEGATIVE_WORDS)]

----------------------------------------------------------------------------
(* RiskClassifier: the external risk model (RAG module) *)

\* a raw score: a number in thousandths, or a value float() rejects
Num(v) == [num |-> TRUE, val |-> v]

NotNum == [num |-> FALSE, val |-> 0]

\* what one call of the RAG module's entry point does: raise, return something
\* that is no dict, or return a dict. An absent key is None (the strings), the
\* empty list (dimensions, notes) or the default 0.0 of raw.get (score)
RagRaise == [kind |-> "raise", risk_level |-> None, tier |-> None, score |-> Num(0),
             dimensions |-> <<>>, dimension |-> None, notes |-> <<>>, emotion |-> None]

RagNonDict == [RagRaise EXCEPT !.kind = "nondict"]

RagDict(risk_level, sc) == [RagRaise EXCEPT !.kind = "dict", !.risk_level = risk_level, !.score = sc]

\* str(label).strip().lower() on the labels the model feeds in
NormalizeLabel(label) ==
    CASE label = "CAUTION" -> "caution"
      [] label = " High " -> "high"
      [] label = "Crisis" -> "crisis"
      [] label = "OK" -> "ok"
      [] OTHER -> label

\* a falsy label: None or the empty string
Falsy(v) == v = None \/ v = ""

tier_from_label(label) ==
    IF Falsy(label) THEN "OK"
    ELSE LET normalized == NormalizeLabel(label)
         IN  CASE normalized = "ok" -> "OK"
               [] normalized = "caution" -> "CAUTION"
               [] normalized = "high" -> "HIGH"
               [] normalized = "crisis" -> "CRISIS"
               [] OTHER -> "OK"

\* the result is in 1/3000: a score above 1.0 is divided by 3
normalize_score(value) ==
    IF ~value.num THEN 0
    ELSE LET scaled == IF value.val > 1000 THEN value.val ELSE 3 * value.val
         IN  Max(0, Min(3000, scaled))

\* "emotion" in n, for the notes the model feeds in
MentionsEmotion(n) == n \in {"emotion=fear", "client shows emotion"}

\* a diagnostic note: its text and what the f-string fills in
Note(text, arg) == <<text, arg, "">>

Note2(text, arg, arg2) == <<text, arg, arg2>>

\* a RiskAssessment
Assessment(t, sc, flagged, notes) ==
    [tier |-> t, score |-> sc, flagged_keywords |-> flagged, notes |-> notes]

NoAssessment == Assessment("OK", 0, {}, <<>>)

\* RiskClassifier._rag_assess: the assessment (some = FALSE: None), the notes, and
\* the exception that leaves the call (None: the call returns)
rag_assess(rag_module, raw) ==
    IF ~rag_module THEN
        [some |-> FALSE, assessment |-> NoAssessment,
         notes |-> <<Note("RAG risk module unavailable.", "")>>, exc |-> None]
    ELSE IF raw.kind = "raise" THEN
        [some |-> FALSE, assessment |-> NoAssessment,
         notes |-> <<Note("RAG risk module error: ", "exc")>>, exc |-> None]
    ELSE IF raw.kind # "dict" THEN
        [some |-> FALSE, assessment |-> NoAssessment,
         notes |-> <<Note("RAG risk module returned an unexpected response.", "")>>,
         exc |-> None]
    ELSE
        LET t  == tier_from_label(IF Falsy(raw.risk_level) THEN raw.tier ELSE raw.risk_level)
            sc == normalize_score(raw.score)
            dims == Range(raw.dimensions)
            dim  == IF raw.dimension = None THEN {} ELSE {raw.dimension}
            notes == [i \in 1..Len(raw.notes) |-> Note(raw.notes[i], "")]
            emo == IF raw.emotion # None /\ ~\E i \in 1..Len(raw.notes) : MentionsEmotion(raw.notes[i])
                   THEN <<Note("emotion=", raw.emotion)>> ELSE <<>>
        IN  [some |-> TRUE, assessment |-> Assessment(t, sc, dims \cup dim, notes \o emo),
             notes |-> <<>>, exc |-> None]

----------------------------------------------------------------------------
(* RiskClassifier: local keyword extraction *)

CRISIS_PHRASES == {"kill myself", "end my life", "suicide", "take my life",
    "hurt myself", "want to die", "ending it all"}

HIGH_KEYWORDS == {"cut", "self-harm", "jump", "overdose", "plan", "no reason",
    "can't go on", "die"}

CAUTION_KEYWORDS == {"numb", "worthless", "hopeless", "empty", "lost", "alone",
    "tired", "fail", "failure", "break", "breaking", "drowning", "spiral", "panic",
    "overwhelmed", "burnout", "grief", "insomnia"}

\* the words of a phrase or keyword, split at blanks
Words(k) ==
    CASE k = "kill myself" -> <<"kill", "myself">>
      [] k = "end my life" -> <<"end", "my", "life">>
      [] k = "take my life" -> <<"take", "my", "life">>
      [] k = "hurt myself" -> <<"hurt", "myself">>
      [] k = "want to die" -> <<"want", "to", "die">>
      [] k = "ending it all" -> <<"ending", "it", "all">>
      [] k = "no reason" -> <<"no", "reason">>
      [] k = "can't go on" -> <<"can't", "go", "on">>
      [] OTHER -> <<k>>

HasSpace(k) == Len(Words(k)) > 1

\* phrase in text: the words of the phrase occur consecutively in the lowered text
Contains(toks, k) ==
    LET w == Words(k)
    IN  \E i \in 1..Len(toks) :
            /\ i + Len(w) - 1 <= Len(toks)
            /\ \A j \in 1..Len(w) : toks[i + j - 1] = w[j]

find_phrases(toks, phrases) == {p \in phrases : Contains(toks, p)}

\* a keyword without a blank must be a whole token; no token holds a hyphen
find_keywords(toks, keywords) ==
    {k \in keywords : IF HasSpace(k) THEN Contains(toks, k) ELSE k \in Range(toks)}

\* the caution-severity keywords are not scanned
extract_keywords_no_caution(text) ==
    LET lowered == Tokens(text)
    IN  find_phrases(lowered, CRISIS_PHRASES) \cup find_keywords(lowered, HIGH_KEYWORDS)

extract_keywords(text) ==
    LET lowered == Tokens(text)
    IN  find_phrases(lowered, CRISIS_PHRASES)
            \cup find_keywords(lowered, HIGH_KEYWORDS)
            \cup find_keywords(lowered, CAUTION_KEYWORDS)

----------------------------------------------------------------------------
(* RiskClassifier: resources *)

ResourceKeys == {"suicide", "hurt myself", "hopeless", "lonely", "anxious", "panic",
    "overwhelmed", "self-harm", "grief", "insomnia", "burnout"}

RESOURCE_MAP == [k \in ResourceKeys |->
    CASE k = "suicide" -> [type |-> "hotline", label |-> "988 Suicide & Crisis Lifeline"]
      [] k = "hurt myself" -> [type |-> "hotline", label |-> "Crisis Text Line"]
      [] k = "hopeless" -> [type |-> "article", label |-> "Grounding exercise: 5-4-3-2-1 method"]
      [] k = "lonely" -> [type |-> "resource", label |-> "Mental Health America peer support"]
      [] k = "anxious" -> [type |-> "exercise", label |-> "Box breathing technique"]
      [] k = "panic" -> [type |-> "exercise", label |-> "Panic attack grounding steps"]
      [] k = "overwhelmed" -> [type |-> "article", label |-> "Guided journaling prompts for overwhelm"]
      [] k = "self-harm" -> [type |-> "hotline", label |-> "Self-Injury Outreach & Support"]
      [] k = "grief" -> [type |-> "resource", label |-> "Grief Share support groups"]
      [] k = "insomnia" -> [type |-> "exercise", label |-> "Sleep hygiene checklist"]
      [] k = "burnout" -> [type |-> "article", label |-> "Burnout recovery micro-breaks"]]

DefaultHotline == [type |-> "hotline", label |-> "988 Suicide & Crisis Lifeline"]

\* the suggestions as a set: the list follows the iteration order of the keywords
\* and holds no resource twice
\* the tier is not looked at
suggest_resources_any_tier(keywords, t) ==
    LET suggestions == {RESOURCE_MAP[k] : k \in keywords \cap ResourceKeys}
    IN  IF ~\E res \in suggestions : res.type = "hotline"
        THEN suggestions \cup {DefaultHotline}
        ELSE suggestions

suggest_resources(keywords, t) ==
    LET suggestions == {RESOURCE_MAP[k] : k \in keywords \cap ResourceKeys}
    IN  IF t \in {"HIGH", "CRISIS"} /\ ~\E res \in suggestions : res.type = "hotline"
        THEN suggestions \cup {DefaultHotline}
        ELSE suggestions

----------------------------------------------------------------------------
(* RiskClassifier: adapters and assess *)

\* what one call of an adapter does: return None, raise, or return a RiskAssessment
\* (its score in thousandths)
AdapterNone == [kind |-> "none", result |-> NoAssessment]

AdapterRaise == [kind |-> "raise", result |-> NoAssessment]

AdapterResult(t, sc, flagged) ==
    [kind |-> "result", result |-> Assessment(t, sc, flagged, <<Note("adapter note", "")>>)]

\* the running state of _apply_adapters
AdapterState(t, sc) == [tier |-> t, score |-> sc, flagged |-> {}, notes |-> <<>>, exc |-> None]

\* the failure is noted and the running tier and score start over from OK / 0.0
adapter_failed_resets(st, name) ==
    [st EXCEPT !.notes = @ \o <<Note("Adapter failed: ", name)>>,
               !.tier = "OK", !.score = 0]

\* the adapter raised and nothing catches it: the exception leaves _apply_adapters
adapter_failed_uncaught(st, name) == [st EXCEPT !.exc = "Exception"]

\* the except clause of _apply_adapters: a note naming the adapter, and continue
adapter_failed(st, name) ==
    [st EXCEPT !.notes = @ \o <<Note("Adapter failed: ", name)>>]

\* the adapter's tier is adopted whatever the running tier is
adopts_always(result_tier, running_tier) == TRUE

\* the adapter's tier is adopted when it is strictly more severe than the running tier
adopts(result_tier, running_tier) ==
    CLS_RISK_SEVERITY[result_tier] > CLS_RISK_SEVERITY[running_tier]

\* one iteration of the loop of _apply_adapters: adapter `name` returned `out`;
\* once an exception has left the loop nothing more runs
apply_adapter(st, name, out) ==
    IF st.exc # None THEN st
    ELSE IF out.kind = "raise" THEN adapter_failed(st, name)
    ELSE IF out.kind = "none" THEN st
    ELSE
        LET result == out.result
            escalates == adopts(result.tier, st.tier)
        IN  [tier    |-> IF escalates THEN result.tier ELSE st.tier,
             score   |-> Max(st.score, 3 * result.score),
             flagged |-> st.flagged \cup result.flagged_keywords,
             notes   |-> st.notes
                           \o (IF escalates
                               THEN <<Note2("Adapter escalated tier to ", name, result.tier)>>
                               ELSE <<>>)
                           \o result.notes,
             exc     |-> None]

RECURSIVE ApplyFrom(_, _, _, _)
ApplyFrom(st, adapters, outs, i) ==
    IF i > Len(adapters) THEN st
    ELSE ApplyFrom(apply_adapter(st, adapters[i], outs[i]), adapters, outs, i + 1)

\* RiskClassifier._apply_adapters: adapters[i] returns outs[i]
apply_adapters(adapters, outs, current_tier, current_score) ==
    ApplyFrom(AdapterState(current_tier, current_score), adapters, outs, 1)

\* the baseline of assess: the RAG assessment, or OK / 0.0 when there is none
baseline(rag) ==
    IF rag.some
    THEN [tier |-> rag.assessment.tier, score |-> rag.assessment.score,
          flagged |-> rag.assessment.flagged_keywords,
          notes |-> rag.assessment.notes \o rag.notes]
    ELSE [tier |-> "OK", score |-> 0, flagged |-> {},
          notes |-> IF rag.notes # <<>> THEN rag.notes
                    ELSE <<Note("RAG risk module unavailable.", "")>>]

\* a crisis phrase found in the text raises the baseline to CRISIS
assess_keywords_escalate(text, sentiment, recent_tiers, cfg, env) ==
    LET rag  == rag_assess(cfg.rag_module, env.raw)
        base == baseline(rag)
        start == IF find_phrases(Tokens(text), CRISIS_PHRASES) # {} THEN "CRISIS" ELSE base.tier
        fused == apply_adapters(cfg.adapters, env.outs, start, base.score)
    IN  [exc |-> IF rag.exc # None THEN rag.exc ELSE fused.exc,
         risk |-> Assessment(fused.tier, RoundDiv(fused.score, 3),
                             base.flagged \cup extract_keywords(text) \cup fused.flagged,
                             base.notes \o fused.notes)]

\* the baseline is raised to CAUTION when a recent message was HIGH or CRISIS
assess_with_history(text, sentiment, recent_tiers, cfg, env) ==
    LET rag  == rag_assess(cfg.rag_module, env.raw)
        base == baseline(rag)
        recent_high == \E i \in 1..Len(recent_tiers) : recent_tiers[i] \in {"HIGH", "CRISIS"}
        start == IF recent_high /\ base.tier = "OK" THEN "CAUTION" ELSE base.tier
        fused == apply_adapters(cfg.adapters, env.outs, start, base.score)
    IN  [exc |-> fused.exc,
         risk |-> Assessment(fused.tier, RoundDiv(fused.score, 3),
                             base.flagged \cup extract_keywords(text) \cup fused.flagged,
                             base.notes \o fused.notes)]

\* RiskClassifier.assess; recent_tiers is accepted and not read. env is what the
\* collaborators do during the call: the RAG response and each adapter's outcome
assess(text, sentiment, recent_tiers, cfg, env) ==
    LET rag  == rag_assess(cfg.rag_module, env.raw)
        base == baseline(rag)
        fused == apply_adapters(cfg.adapters, env.outs, base.tier, base.score)
        exc  == IF rag.exc # None THEN rag.exc ELSE fused.exc
    IN  [exc |-> exc,
         risk |-> Assessment(fused.tier, RoundDiv(fused.score, 3),
                             base.flagged \cup extract_keywords(text) \cup fused.flagged,
                             base.notes \o fused.notes)]

----------------------------------------------------------------------------
(* SessionStorage: the persistence collaborator. A database is the record of *)
(* its four tables; a table holds a row for the ids in its DOMAIN.           *)

Db == [sessions |-> sessions, messages |-> messages, buffers |-> buffers, metrics |-> metrics]

EmptyDb == [sessions |-> <<>>, messages |-> [s \in SessionIds |-> <<>>],
            buffers |-> <<>>, metrics |-> <<>>]

Put(table, key, row) == [k \in DOMAIN table \cup {key} |-> IF k = key THEN row ELSE table[k]]

storage_create_session(db, sid, session) ==
    [db EXCEPT !.sessions = Put(@, sid, session)]

\* updated_at is logical time: every write of the record is one second later
storage_update_status(db, sid, status, t) ==
    [db EXCEPT !.sessions[sid] =
        [@ EXCEPT !.status = status, !.active_risk_tier = t, !.updated_at = @ + 1]]

storage_update_tier(db, sid, t) ==
    [db EXCEPT !.sessions[sid] = [@ EXCEPT !.active_risk_tier = t, !.updated_at = @ + 1]]

insert_message(db, sid, message) ==
    [db EXCEPT !.messages[sid] = Append(@, message)]

list_messages(db, sid) == db.messages[sid]

\* the most recent n messages, oldest first
recent_messages(db, sid, n) ==
    LET all == db.messages[sid]
    IN  SubSeq(all, Max(1, Len(all) - n + 1), Len(all))

save_buffer(db, sid, snapshot) == [db EXCEPT !.buffers = Put(@, sid, snapshot)]

upsert_metrics(db, sid, m) == [db EXCEPT !.metrics = Put(@, sid, m)]

----------------------------------------------------------------------------
(* SessionTracker *)

NoValue == [none |-> TRUE]

\* what a call gives its caller: the database it leaves, the exception it raised
\* ("ok": it returned) and the value it returned
Return(db, value) == [db |-> db, outcome |-> "ok", value |-> value]

Raise(db, exc) == [db |-> db, outcome |-> exc, value |-> NoValue]

sentiment_band_from_score(sc) ==
    IF sc > 100 THEN "POSITIVE"
    ELSE IF sc < -100 THEN "NEGATIVE"
    ELSE "NEUTRAL"

NewSessionEnded ==
    [status |-> "ENDED", created_at |-> 0, updated_at |-> 0, active_risk_tier |-> "OK"]

NewSession ==
    [status |-> "ACTIVE", created_at |-> 0, updated_at |-> 0, active_risk_tier |-> "OK"]

BufferSnapshot(msgs) == [messages |-> msgs, capacity |-> BufferSize]

\* SessionTracker.create_session, uuid4 giving sid
create_session(db, sid) ==
    LET db1 == storage_create_session(db, sid, NewSession)
        db2 == save_buffer(db1, sid, BufferSnapshot(<<>>))
    IN  Return(db2, [session |-> NewSession])

\* the snapshot is saved under every session that has a buffer
update_buffer_shared(db, sid) ==
    LET snapshot == BufferSnapshot(recent_messages(db, sid, BufferSize))
    IN  [db |-> [db EXCEPT !.buffers = [k \in DOMAIN db.buffers \cup {sid} |-> snapshot]],
         buffer |-> snapshot]

\* the snapshot takes the whole history instead of the most recent buffer_size
update_buffer_unbounded(db, sid) ==
    LET snapshot == BufferSnapshot(list_messages(db, sid))
    IN  [db |-> save_buffer(db, sid, snapshot), buffer |-> snapshot]

\* SessionTracker._update_buffer
update_buffer(db, sid) ==
    LET snapshot == BufferSnapshot(recent_messages(db, sid, BufferSize))
    IN  [db |-> save_buffer(db, sid, snapshot), buffer |-> snapshot]

\* SessionTracker._collect_flagged_keywords
collect_flagged_keywords(db, sid) ==
    UNION {list_messages(db, sid)[i].flagged_keywords : i \in 1..Len(list_messages(db, sid))}

\* tier_counts / band_counts: zero-filled over the enum, one increment per message
RECURSIVE Tally(_, _, _)
Tally(counts, keys, i) ==
    IF i > Len(keys) THEN counts
    ELSE Tally([counts EXCEPT ![keys[i]] = @ + 1], keys, i + 1)

\* the tally skips the messages of tier OK
tier_counts_elevated(recent_risk) ==
    Tally([t \in Tiers |-> 0], SelectSeq(recent_risk, LAMBDA t : t # "OK"), 1)

\* tier_counts = {tier.value: 0 for tier in RiskTier}, then += 1 per message
tier_counts_of(recent_risk) == Tally([t \in Tiers |-> 0], recent_risk, 1)

\* the loop keeps the least severe tier that has a message
MaxTierFrom_least(tier_counts, max_risk_tier, i) ==
    IF \A t \in Tiers : tier_counts[t] = 0 THEN max_risk_tier
    ELSE CHOOSE t \in Tiers :
            /\ tier_counts[t] > 0
            /\ \A u \in Tiers : tier_counts[u] > 0 => RISK_SEVERITY[t] <= RISK_SEVERITY[u]

\* the loop over RiskTier that picks max_risk_tier
RECURSIVE MaxTierFrom(_, _, _)
MaxTierFrom(tier_counts, max_risk_tier, i) ==
    IF i > Len(RiskTier) THEN max_risk_tier
    ELSE LET t == RiskTier[i]
         IN  MaxTierFrom(tier_counts,
                 IF tier_counts[t] > 0 /\ RISK_SEVERITY[t] >= RISK_SEVERITY[max_risk_tier]
                 THEN t ELSE max_risk_tier,
                 i + 1)

\* recent_risk[-3:]
LastThree(s) == SubSeq(s, Max(1, Len(s) - 2), Len(s))

trend_notes(recent_risk, avg_sentiment) ==
    IF recent_risk = <<>> THEN <<>>
    ELSE LET n == Len(recent_risk)
         IN  (IF \A i \in 1..Len(LastThree(recent_risk)) :
                     LastThree(recent_risk)[i] \in {"CAUTION", "HIGH", "CRISIS"}
              THEN <<"Sustained elevated risk across last three turns.">> ELSE <<>>)
             \o (IF n >= 2 /\ RISK_SEVERITY[recent_risk[n]] > RISK_SEVERITY[recent_risk[n - 1]]
                 THEN <<"Risk climbing on most recent turn.">> ELSE <<>>)
             \o (IF avg_sentiment < -300
                 THEN <<"Overall negative sentiment.">> ELSE <<>>)

\* the SessionMetrics computed from a message list
compute_metrics(msgs) ==
    LET message_count == Len(msgs)
        recent_risk == [i \in 1..Len(msgs) |-> msgs[i].risk_tier]
        avg_sentiment ==
            IF message_count > 0
            THEN RoundDiv(SumSeq([i \in 1..Len(msgs) |-> msgs[i].sentiment_score]), message_count)
            ELSE 0
        tier_counts == tier_counts_of(recent_risk)
        band_counts == Tally([b \in Bands |-> 0],
                             [i \in 1..Len(msgs) |-> sentiment_band_from_score(msgs[i].sentiment_score)], 1)
        flagged_keywords == UNION {msgs[i].flagged_keywords : i \in 1..Len(msgs)}
        max_risk_tier == MaxTierFrom(tier_counts, "OK", 1)
    IN  [message_count |-> message_count,
         user_turns |-> Cardinality({i \in 1..Len(msgs) : msgs[i].sender = "USER"}),
         assistant_turns |-> Cardinality({i \in 1..Len(msgs) : msgs[i].sender = "ASSISTANT"}),
         avg_sentiment |-> avg_sentiment,
         max_risk_tier |-> max_risk_tier,
         tier_counts |-> tier_counts,
         band_counts |-> band_counts,
         trend_notes |-> trend_notes(recent_risk, avg_sentiment),
         suggested_resources |-> suggest_resources(flagged_keywords, max_risk_tier)]

\* the metrics are computed from the most recent buffer_size messages
recalculate_metrics_recent(db, sid) ==
    LET msgs == recent_messages(db, sid, BufferSize)
        m == compute_metrics(msgs)
    IN  [db |-> upsert_metrics(db, sid, m), metrics |-> m,
         flagged |-> UNION {msgs[i].flagged_keywords : i \in 1..Len(msgs)}]

\* SessionTracker._recalculate_metrics
recalculate_metrics(db, sid) ==
    LET msgs == list_messages(db, sid)
        m == compute_metrics(msgs)
    IN  [db |-> upsert_metrics(db, sid, m), metrics |-> m,
         flagged |-> UNION {msgs[i].flagged_keywords : i \in 1..Len(msgs)}]

\* SessionTracker._build_summary
build_summary(session, m, flagged_keywords) ==
    [session |-> session,
     metrics |-> m,
     duration_seconds |-> Max(0, session.updated_at - session.created_at),
     flagged_keywords |-> flagged_keywords,
     notes |-> m.trend_notes \o (IF session.status = "ENDED"
                                 THEN <<"Session marked as ended.">> ELSE <<>>)]

\* the summary also writes the metrics' maximum into the session record
get_summary_sets_tier(db, sid) ==
    IF sid \notin DOMAIN db.sessions THEN Raise(db, "SessionNotFound")
    ELSE LET cached == sid \in DOMAIN db.metrics
             flagged == collect_flagged_keywords(db, sid)
             rec == recalculate_metrics(db, sid)
             m == IF cached THEN db.metrics[sid] ELSE rec.metrics
             db2 == storage_update_tier(IF cached THEN db ELSE rec.db, sid, m.max_risk_tier)
         IN  Return(db2, build_summary(db2.sessions[sid], m, flagged))

\* the metrics are recomputed before the session is looked up
get_summary_unchecked(db, sid) ==
    IF sid \notin DOMAIN db.sessions
    THEN Raise(recalculate_metrics(db, sid).db, "SessionNotFound")
    ELSE LET session == db.sessions[sid]
             cached == sid \in DOMAIN db.metrics
             flagged == collect_flagged_keywords(db, sid)
             rec == recalculate_metrics(db, sid)
         IN  IF cached
             THEN Return(db, build_summary(session, db.metrics[sid], flagged))
             ELSE Return(rec.db, build_summary(session, rec.metrics, rec.flagged))

\* SessionTracker.get_summary
get_summary(db, sid) ==
    IF sid \notin DOMAIN db.sessions THEN Raise(db, "SessionNotFound")
    ELSE LET session == db.sessions[sid]
             cached == sid \in DOMAIN db.metrics
             flagged == collect_flagged_keywords(db, sid)
             rec == recalculate_metrics(db, sid)
         IN  IF cached
             THEN Return(db, build_summary(session, db.metrics[sid], flagged))
             ELSE Return(rec.db, build_summary(session, rec.metrics, rec.flagged))

\* the summary is built from the record read before the update (line 117 left out)
end_session_stale(db, sid) ==
    IF sid \notin DOMAIN db.sessions THEN Raise(db, "SessionNotFound")
    ELSE IF db.sessions[sid].status = "ENDED" THEN get_summary(db, sid)
    ELSE LET rec == recalculate_metrics(db, sid)
             db2 == storage_update_status(rec.db, sid, "ENDED", rec.metrics.max_risk_tier)
             session == db.sessions[sid]
         IN  Return(db2, build_summary(session, rec.metrics, rec.flagged))

\* the status is written and the tier is left as the last append set it
end_session_keeps_tier(db, sid) ==
    IF sid \notin DOMAIN db.sessions THEN Raise(db, "SessionNotFound")
    ELSE IF db.sessions[sid].status = "ENDED" THEN get_summary(db, sid)
    ELSE LET rec == recalculate_metrics(db, sid)
             db2 == storage_update_status(rec.db, sid, "ENDED", db.sessions[sid].active_risk_tier)
             session == db2.sessions[sid]
         IN  Return(db2, build_summary(session, rec.metrics, rec.flagged))

\* SessionTracker.end_session
end_session(db, sid) ==
    IF sid \notin DOMAIN db.sessions THEN Raise(db, "SessionNotFound")
    ELSE IF db.sessions[sid].status = "ENDED" THEN get_summary(db, sid)
    ELSE LET rec == recalculate_metrics(db, sid)
             db2 == storage_update_status(rec.db, sid, "ENDED", rec.metrics.max_risk_tier)
             session == db2.sessions[sid]
         IN  Return(db2, build_summary(session, rec.metrics, rec.flagged))

\* the record is stored without the flagged keywords of its assessment
MessageRecord_no_keywords(sender, content, sentiment, risk) ==
    [sender |-> sender, content |-> content, sentiment_score |-> sentiment.score,
     risk_tier |-> risk.tier, risk_score |-> risk.score,
     flagged_keywords |-> {}]

MessageRecord(sender, content, sentiment, risk) ==
    [sender |-> sender, content |-> content, sentiment_score |-> sentiment.score,
     risk_tier |-> risk.tier, risk_score |-> risk.score,
     flagged_keywords |-> risk.flagged_keywords]

\* the status check is left out
is_active_unchecked(session) == TRUE

\* append_message, line 131: session.status != SessionStatus.ACTIVE raises
is_active(session) == session.status = "ACTIVE"

\* the record keeps the more severe of its tier and the new one
update_active_tier_max(db, sid, risk) ==
    storage_update_tier(db, sid,
        IF RISK_SEVERITY[risk.tier] > RISK_SEVERITY[db.sessions[sid].active_risk_tier]
        THEN risk.tier ELSE db.sessions[sid].active_risk_tier)

\* the session record is not written after the insert
update_active_tier_skipped(db, sid, risk) == db

\* append_message, line 151: update_session(active_risk_tier=assessment.tier)
update_active_tier(db, sid, risk) == storage_update_tier(db, sid, risk.tier)

\* SessionTracker.append_message
append_message(db, sid, sender, content, cfg, env) ==
    IF sid \notin DOMAIN db.sessions THEN Raise(db, "SessionNotFound")
    ELSE IF ~is_active(db.sessions[sid]) THEN Raise(db, "SessionClosed")
    ELSE LET sentiment == score(content)
             recent == recent_messages(db, sid, BufferSize)
             recent_tiers == [i \in 1..Len(recent) |-> recent[i].risk_tier]
             assessed == assess(content, sentiment, recent_tiers, cfg, env)
             message == MessageRecord(sender, content, sentiment, assessed.risk)
             db1 == insert_message(db, sid, message)
             db2 == update_active_tier(db1, sid, assessed.risk)
             buf == update_buffer(db2, sid)
             rec == recalculate_metrics(buf.db, sid)
         IN  IF assessed.exc # None THEN Raise(db, assessed.exc)
             ELSE Return(rec.db, [message |-> message, risk |-> assessed.risk,
                                  buffer |-> buf.buffer, metrics |-> rec.metrics])

\* SessionTracker.get_buffer
get_buffer(db, sid) ==
    IF sid \in DOMAIN db.buffers THEN Return(db, db.buffers[sid])
    ELSE IF sid \notin DOMAIN db.sessions THEN Raise(db, "SessionNotFound")
    ELSE LET buf == update_buffer(db, sid)
         IN  Return(buf.db, buf.buffer)

\* append_message stopped by a failure of the process or of the storage after
\* insert_message (line 150) returned: `done` counts the writes of lines 151-153
\* that completed before it (0: none, 1: update_session, 2: and save_buffer)
append_message_interrupted(db, sid, sender, content, cfg, env, done) ==
    IF sid \notin DOMAIN db.sessions THEN Raise(db, "SessionNotFound")
    ELSE IF ~is_active(db.sessions[sid]) THEN Raise(db, "SessionClosed")
    ELSE LET sentiment == score(content)
             recent == recent_messages(db, sid, BufferSize)
             recent_tiers == [i \in 1..Len(recent) |-> recent[i].risk_tier]
             assessed == assess(content, sentiment, recent_tiers, cfg, env)
             message == MessageRecord(sender, content, sentiment, assessed.risk)
             db1 == insert_message(db, sid, message)
             db2 == update_active_tier(db1, sid, assessed.risk)
             buf == update_buffer(db2, sid)
         IN  IF assessed.exc # None THEN Raise(db, assessed.exc)
             ELSE Raise(IF done = 0 THEN db1 ELSE IF done = 1 THEN db2 ELSE buf.db,
                        "Interrupted")

----------------------------------------------------------------------------
(* The inputs of the calls *)

\* the request bodies of POST /sessions/<id>/messages
UserRequest == [sender |-> "USER", content |-> <<"I", "feel", "hopeless", "and", "empty">>]

AssistantRequest ==
    [sender |-> "ASSISTANT",
     content |-> <<"I'm", "glad", "you're", "feeling", "calm", "and", "supported">>]

Requests == {UserRequest, AssistantRequest}

\* what the RAG module does during one append_message
RagOutcomes == {RagRaise, RagNonDict, RagDict("Crisis", Num(2700))}

\* what an adapter does during one append_message
AdapterOutcomes == {AdapterNone, AdapterRaise, AdapterResult("HIGH", 800, {})}

\* the trackers the server may be built as: with or without the RAG module, with
\* the first n adapters registered
Configs(n) == {[rag_module |-> r, adapters |-> SubSeq(AdapterNames, 1, k)] :
                    r \in BOOLEAN, k \in 0..n}

Envs(cfg, raws, outcomes) ==
    {[raw |-> raw, outs |-> outs] :
        raw \in raws, outs \in [1..Len(cfg.adapters) -> outcomes]}

----------------------------------------------------------------------------
(* The orchestrator's calls, one at a time *)

IdleThread == [pc |-> "idle"]

IdleCls == [pc |-> "idle"]

RECURSIVE CountMsgs(_, _)
CountMsgs(table, ids) ==
    IF ids = {} THEN 0
    ELSE LET s == CHOOSE x \in ids : TRUE
         IN  Len(table[s]) + CountMsgs(table, ids \ {s})

TotalMsgs == CountMsgs(messages, SessionIds)

\* again: the call before it was the same operation on the same session
NoCall == [op |-> "init", sid |-> None, again |-> FALSE, input |-> NoValue,
           outcome |-> "ok", value |-> NoValue]

InitWith(configs) ==
    /\ sessions = EmptyDb.sessions
    /\ messages = EmptyDb.messages
    /\ buffers = EmptyDb.buffers
    /\ metrics = EmptyDb.metrics
    /\ config \in configs
    /\ last = NoCall
    /\ threads = [t \in ThreadIds |-> IdleThread]
    /\ cls = IdleCls

\* the call `op` on `sid` with `input` ended as `r`
Called(op, sid, input, r) ==
    /\ sessions' = r.db.sessions
    /\ messages' = r.db.messages
    /\ buffers' = r.db.buffers
    /\ metrics' = r.db.metrics
    /\ last' = [op |-> op, sid |-> sid, again |-> (last.op = op /\ last.sid = sid),
                input |-> input, outcome |-> r.outcome, value |-> r.value]
    /\ UNCHANGED <<config, threads, cls>>

\* POST /sessions: uuid4 gives an id no session has
CreateSession(ids) ==
    \E sid \in ids \ DOMAIN sessions : Called("create", sid, NoValue, create_session(Db, sid))

\* POST /sessions/<id>/messages, while the model's budget of messages lasts
AppendMessage(ids, reqs, raws, outcomes) ==
    /\ TotalMsgs < MaxMsgs
    /\ \E sid \in ids, req \in reqs, env \in Envs(config, raws, outcomes) :
            Called("append", sid, [req |-> req, env |-> env],
                   append_message(Db, sid, req.sender, req.content, config, env))

\* POST /sessions/<id>/end
EndSession(ids) ==
    \E sid \in ids : Called("end", sid, NoValue, end_session(Db, sid))

\* GET /sessions/<id>/summary
GetSummary(ids) ==
    \E sid \in ids : Called("summary", sid, NoValue, get_summary(Db, sid))

\* GET /sessions/<id>: get_buffer
GetBuffer(ids) ==
    \E sid \in ids : Called("buffer", sid, NoValue, get_buffer(Db, sid))

(* One session, every collaborator behaviour *)

OneSession == {"s1"}

Init == InitWith(Configs(1))

Next ==
    \/ CreateSession(OneSession)
    \/ AppendMessage(OneSession, Requests, RagOutcomes, AdapterOutcomes)
    \/ EndSession(OneSession)
    \/ GetSummary(OneSession)
    \/ GetBuffer(OneSession)

Spec == Init /\ [][Next]_vars

(* Several sessions, the default tracker (no RAG module) with one adapter *)

InitSessions == InitWith({[rag_module |-> FALSE, adapters |-> SubSeq(AdapterNames, 1, 1)]})

NextSessions ==
    \/ CreateSession(SessionIds)
    \/ AppendMessage(SessionIds, {UserRequest}, {RagRaise}, {AdapterNone, AdapterResult("HIGH", 800, {})})
    \/ EndSession(SessionIds)
    \/ GetSummary(SessionIds)
    \/ GetBuffer(SessionIds)

SpecSessions == InitSessions /\ [][NextSessions]_vars

(* One session whose append_message calls may be interrupted after the insert *)

\* how many of the three writes after insert_message completed
InterruptPoints == {0, 1, 2}

\* POST /sessions/<id>/messages that ends in an interruption after the insert
AppendInterrupted(ids, reqs, raws, outcomes) ==
    /\ TotalMsgs < MaxMsgs
    /\ \E sid \in ids, req \in reqs, env \in Envs(config, raws, outcomes), done \in InterruptPoints :
            Called("append_interrupted", sid, [req |-> req, env |-> env, done |-> done],
                   append_message_interrupted(Db, sid, req.sender, req.content, config, env, done))

NextCrash ==
    \/ CreateSession(OneSession)
    \/ AppendMessage(OneSession, Requests, {RagRaise}, {AdapterNone, AdapterResult("HIGH", 800, {})})
    \/ AppendInterrupted(OneSession, Requests, {RagRaise}, {AdapterNone, AdapterResult("HIGH", 800, {})})
    \/ EndSession(OneSession)
    \/ GetSummary(OneSession)
    \/ GetBuffer(OneSession)

SpecCrash == InitSessions /\ [][NextCrash]_vars

----------------------------------------------------------------------------
(* One RiskClassifier.assess call, stage by stage *)

AssessTexts == {UserRequest.content, <<"i", "want", "to", "die">>, <<"Not", "calm">>}

AssessRaws == {RagRaise, RagNonDict,
    RagDict("CAUTION", Num(400)), RagDict(" High ", Num(2100)), RagDict("Crisis", Num(5000)),
    RagDict("OK", Num(-200)), RagDict("severe", NotNum),
    [RagDict("", Num(1000)) EXCEPT !.tier = "caution", !.dimension = "suicide",
                                   !.notes = <<"client shows emotion">>, !.emotion = "fear"],
    [RagDict(None, Num(0)) EXCEPT !.dimensions = <<"lonely", "panic">>, !.emotion = "fear"]}

AssessOutcomes == {AdapterNone, AdapterRaise}
    \cup {AdapterResult(t, sc, {}) : t \in Tiers, sc \in {300}}
    \cup {AdapterResult("HIGH", 950, {"self-harm"})}

InitAssess ==
    /\ sessions = EmptyDb.sessions
    /\ messages = EmptyDb.messages
    /\ buffers = EmptyDb.buffers
    /\ metrics = EmptyDb.metrics
    /\ config \in Configs(2)
    /\ last = NoCall
    /\ threads = [t \in ThreadIds |-> IdleThread]
    /\ \E text \in AssessTexts, env \in Envs(config, AssessRaws, AssessOutcomes) :
            cls = [pc |-> "rag", text |-> text, env |-> env]

\* assess, line 246 to 262: the baseline and the local keywords
ClsBaseline ==
    /\ cls.pc = "rag"
    /\ LET base == baseline(rag_assess(config.rag_module, cls.env.raw))
       IN  cls' = [pc |-> "adapters", text |-> cls.text, env |-> cls.env,
                   base |-> [base EXCEPT !.flagged = @ \cup extract_keywords(cls.text)],
                   i |-> 1, st |-> AdapterState(base.tier, base.score)]
    /\ UNCHANGED <<sessions, messages, buffers, metrics, config, last, threads>>

\* one iteration of the loop of _apply_adapters
ClsAdapter ==
    /\ cls.pc = "adapters"
    /\ cls.i <= Len(config.adapters)
    /\ cls' = [cls EXCEPT !.i = @ + 1,
                          !.st = apply_adapter(@, config.adapters[cls.i], cls.env.outs[cls.i])]
    /\ UNCHANGED <<sessions, messages, buffers, metrics, config, last, threads>>

\* assess, line 264 to 269
ClsReturn ==
    /\ cls.pc = "adapters"
    /\ cls.i > Len(config.adapters)
    /\ cls' = [pc |-> "done", text |-> cls.text, env |-> cls.env, base |-> cls.base,
               st |-> cls.st,
               exc |-> cls.st.exc,
               result |-> Assessment(cls.st.tier, RoundDiv(cls.st.score, 3),
                                     cls.base.flagged \cup cls.st.flagged,
                                     cls.base.notes \o cls.st.notes)]
    /\ UNCHANGED <<sessions, messages, buffers, metrics, config, last, threads>>

NextAssess ==
    \/ ClsBaseline
    \/ ClsAdapter
    \/ ClsReturn

SpecAssess == InitAssess /\ [][NextAssess]_vars

\* the staged call returns what assess returns
AssessAgrees ==
    cls.pc = "done" =>
        cls.result = assess(cls.text, score(cls.text), <<>>, config, cls.env).risk

----------------------------------------------------------------------------
(* One RiskClassifier.assess call whose collaborators may never return: the  *)
(* call of the RAG entry point (_call_rag_fn) and the call of an adapter are *)
(* plain synchronous calls, with no timeout around them.                     *)

\* the RAG entry point never returns
RagHang == [RagRaise EXCEPT !.kind = "hang"]

\* the adapter never returns
AdapterHang == [kind |-> "hang", result |-> NoAssessment]

HangRaws == {RagRaise, RagHang, RagDict("CAUTION", Num(400))}

HangOutcomes == {AdapterNone, AdapterHang, AdapterResult("HIGH", 800, {})}

InitHang ==
    /\ sessions = EmptyDb.sessions
    /\ messages = EmptyDb.messages
    /\ buffers = EmptyDb.buffers
    /\ metrics = EmptyDb.metrics
    /\ config \in Configs(2)
    /\ last = NoCall
    /\ threads = [t \in ThreadIds |-> IdleThread]
    /\ \E text \in AssessTexts, env \in Envs(config, HangRaws, HangOutcomes) :
            cls = [pc |-> "rag", text |-> text, env |-> env]

\* the baseline and the local keywords, once _rag_assess has returned
HangBaseline ==
    LET base == baseline(rag_assess(config.rag_module, cls.env.raw))
    IN  cls' = [pc |-> "adapters", text |-> cls.text, env |-> cls.env,
                base |-> [base EXCEPT !.flagged = @ \cup extract_keywords(cls.text)],
                i |-> 1, st |-> AdapterState(base.tier, base.score)]

\* _rag_assess, line 280 to 281: no RAG module, nothing is called
HangNoRag ==
    /\ cls.pc = "rag"
    /\ ~config.rag_module
    /\ HangBaseline
    /\ UNCHANGED <<sessions, messages, buffers, metrics, config, last, threads>>

\* _rag_assess, line 283: the call of the RAG entry point is made
HangCallRag ==
    /\ cls.pc = "rag"
    /\ config.rag_module
    /\ cls' = [cls EXCEPT !.pc = "rag_call"]
    /\ UNCHANGED <<sessions, messages, buffers, metrics, config, last, threads>>

\* the RAG entry point returns or raises; one that hangs never does
HangRagReturns ==
    /\ cls.pc = "rag_call"
    /\ cls.env.raw.kind # "hang"
    /\ HangBaseline
    /\ UNCHANGED <<sessions, messages, buffers, metrics, config, last, threads>>

\* _apply_adapters, line 383: the call of the next adapter is made
HangCallAdapter ==
    /\ cls.pc = "adapters"
    /\ cls.i <= Len(config.adapters)
    /\ cls' = [cls EXCEPT !.pc = "adapter_call"]
    /\ UNCHANGED <<sessions, messages, buffers, metrics, config, last, threads>>

\* the adapter returns or raises; one that hangs never does
HangAdapterReturns ==
    /\ cls.pc = "adapter_call"
    /\ cls.env.outs[cls.i].kind # "hang"
    /\ cls' = [cls EXCEPT !.pc = "adapters", !.i = @ + 1,
                          !.st = apply_adapter(@, config.adapters[cls.i], cls.env.outs[cls.i])]
    /\ UNCHANGED <<sessions, messages, buffers, metrics, config, last, threads>>

NextHang ==
    \/ HangNoRag
    \/ HangCallRag
    \/ HangRagReturns
    \/ HangCallAdapter
    \/ HangAdapterReturns
    \/ ClsReturn

\* the interpreter runs the calling thread whenever it can take a step, and a
\* collaborator that does return is given the time to
SpecHang == InitHang /\ [][NextHang]_vars /\ WF_vars(NextHang)

----------------------------------------------------------------------------
(* Single calls of the analysis components on drawn inputs:                  *)
(* SentimentAnalyzer.score, RiskClassifier.suggest_resources and the metrics *)
(* computation of SessionTracker._recalculate_metrics.                       *)

\* most tokens of a scored text
MaxTokens == 3

ScoreVocabulary == {"not", "calm", "sad", "Calm", "today"}

ScoreTexts == UNION {[1..n -> ScoreVocabulary] : n \in 0..MaxTokens}

SuggestKeywords == {"lonely", "suicide", "hurt myself", "hopeless", "stress"}

\* a stored message of tier t with the flagged keywords f
StoredMessage(t, f) ==
    [sender |-> "USER", content |-> <<>>, sentiment_score |-> 0,
     risk_tier |-> t, risk_score |-> 0, flagged_keywords |-> f]

StoredMessages == {StoredMessage(t, f) : t \in Tiers, f \in {{}, {"suicide"}, {"lonely"}}}

\* the histories the metrics are computed from
Histories == UNION {[1..n -> StoredMessages] : n \in 0..2}

InitAnalysis ==
    /\ sessions = EmptyDb.sessions
    /\ messages = EmptyDb.messages
    /\ buffers = EmptyDb.buffers
    /\ metrics = EmptyDb.metrics
    /\ config = [rag_module |-> FALSE, adapters |-> <<>>]
    /\ last = NoCall
    /\ threads = [t \in ThreadIds |-> IdleThread]
    /\ \/ \E text \in ScoreTexts : cls = [pc |-> "score", text |-> text]
       \/ \E keywords \in SUBSET SuggestKeywords, t \in Tiers :
            cls = [pc |-> "suggest", keywords |-> keywords, tier |-> t]
       \/ \E msgs \in Histories : cls = [pc |-> "metrics", msgs |-> msgs]

\* SentimentAnalyzer.score(text)
ClsScore ==
    /\ cls.pc = "score"
    /\ cls' = [pc |-> "scored", text |-> cls.text, result |-> score(cls.text)]
    /\ UNCHANGED <<sessions, messages, buffers, metrics, config, last, threads>>

\* RiskClassifier.suggest_resources(keywords, tier)
ClsSuggest ==
    /\ cls.pc = "suggest"
    /\ cls' = [pc |-> "suggested", keywords |-> cls.keywords, tier |-> cls.tier,
               result |-> suggest_resources(cls.keywords, cls.tier)]
    /\ UNCHANGED <<sessions, messages, buffers, metrics, config, last, threads>>

\* _recalculate_metrics, line 202 to 249, on the history msgs
ClsMetrics ==
    /\ cls.pc = "metrics"
    /\ cls' = [pc |-> "computed", msgs |-> cls.msgs, result |-> compute_metrics(cls.msgs)]
    /\ UNCHANGED <<sessions, messages, buffers, metrics, config, last, threads>>

NextAnalysis ==
    \/ ClsScore
    \/ ClsSuggest
    \/ ClsMetrics

SpecAnalysis == InitAnalysis /\ [][NextAnalysis]_vars

----------------------------------------------------------------------------
(* Concurrent dispatch: ThreadingHTTPServer runs every request in a thread of *)
(* its own against the one TRACKER; nothing in append_message takes a lock,   *)
(* so the threads interleave between any two storage calls.                   *)

\* the messages persisted or about to be: those stored and those of the calls
\* that passed the status check and have not inserted yet
InFlight == Cardinality({t \in ThreadIds : threads[t].pc = "insert_message"})

AllReturned == \A t \in ThreadIds : threads[t].pc = "idle"

ThreadStep(t, th) ==
    /\ threads' = [threads EXCEPT ![t] = th]
    /\ UNCHANGED <<config, last, cls>>

\* the server hands a POST /sessions/<id>/messages to thread t
Dispatch(t, ids, reqs, raws, outcomes) ==
    /\ threads[t].pc = "idle"
    /\ TotalMsgs + InFlight < MaxMsgs
    /\ \E sid \in ids, req \in reqs, env \in Envs(config, raws, outcomes) :
            ThreadStep(t, [pc |-> "get_session", sid |-> sid, req |-> req, env |-> env])
    /\ UNCHANGED store

\* append_message, line 130 to 149: the status check and the assessment
ThGetSession(t) ==
    /\ threads[t].pc = "get_session"
    /\ LET th == threads[t]
           r == append_message(Db, th.sid, th.req.sender, th.req.content, config, th.env)
       IN  IF r.outcome # "ok"
           THEN ThreadStep(t, IdleThread)
           ELSE ThreadStep(t, [pc |-> "insert_message", sid |-> th.sid,
                               message |-> r.value.message, risk |-> r.value.risk])
    /\ UNCHANGED store

\* line 150: storage.insert_message
ThInsertMessage(t) ==
    /\ threads[t].pc = "insert_message"
    /\ messages' = insert_message(Db, threads[t].sid, threads[t].message).messages
    /\ ThreadStep(t, [threads[t] EXCEPT !.pc = "update_session"])
    /\ UNCHANGED <<sessions, buffers, metrics>>

\* line 151: storage.update_session
ThUpdateSession(t) ==
    /\ threads[t].pc = "update_session"
    /\ sessions' = update_active_tier(Db, threads[t].sid, threads[t].risk).sessions
    /\ ThreadStep(t, [pc |-> "recent_messages", sid |-> threads[t].sid])
    /\ UNCHANGED <<messages, buffers, metrics>>

\* _update_buffer, line 188: storage.recent_messages
ThRecentMessages(t) ==
    /\ threads[t].pc = "recent_messages"
    /\ ThreadStep(t, [pc |-> "save_buffer", sid |-> threads[t].sid,
                      recent |-> recent_messages(Db, threads[t].sid, BufferSize)])
    /\ UNCHANGED store

\* _update_buffer, line 189 to 190: storage.save_buffer
ThSaveBuffer(t) ==
    /\ threads[t].pc = "save_buffer"
    /\ buffers' = save_buffer(Db, threads[t].sid, BufferSnapshot(threads[t].recent)).buffers
    /\ ThreadStep(t, [pc |-> "list_messages", sid |-> threads[t].sid])
    /\ UNCHANGED <<sessions, messages, metrics>>

\* _recalculate_metrics, line 201: storage.list_messages
ThListMessages(t) ==
    /\ threads[t].pc = "list_messages"
    /\ ThreadStep(t, [pc |-> "upsert_metrics", sid |-> threads[t].sid,
                      msgs |-> list_messages(Db, threads[t].sid)])
    /\ UNCHANGED store

\* _recalculate_metrics, line 202 to 250: storage.upsert_metrics, and the return
ThUpsertMetrics(t) ==
    /\ threads[t].pc = "upsert_metrics"
    /\ metrics' = upsert_metrics(Db, threads[t].sid, compute_metrics(threads[t].msgs)).metrics
    /\ ThreadStep(t, IdleThread)
    /\ UNCHANGED <<sessions, messages, buffers>>

InitConc == InitWith({[rag_module |-> TRUE, adapters |-> <<>>]})

NextConc ==
    \/ CreateSession(OneSession)
    \/ \E t \in ThreadIds :
        \/ Dispatch(t, OneSession, {UserRequest}, {RagRaise, RagDict("CAUTION", Num(400))}, {})
        \/ ThGetSession(t)
        \/ ThInsertMessage(t)
        \/ ThUpdateSession(t)
        \/ ThRecentMessages(t)
        \/ ThSaveBuffer(t)
        \/ ThListMessages(t)
        \/ ThUpsertMetrics(t)

SpecConc == InitConc /\ [][NextConc]_vars

(* Concurrent dispatch with POST /sessions/<id>/end: an end_session call runs *)
(* in a thread of its own too; here its storage calls all fall between two   *)
(* storage calls of the append_message threads.                              *)

NextConcEnd ==
    \/ NextConc
    \/ EndSession(OneSession)

SpecConcEnd == InitConc /\ [][NextConcEnd]_vars

----------------------------------------------------------------------------
(* Properties *)

Severity(t) == CASE t = "OK" -> 0 [] t = "CAUTION" -> 1 [] t = "HIGH" -> 2 [] t = "CRISIS" -> 3

\* the most severe tier of a set of tiers, OK for the empty set
MostSevere(S) ==
    IF S = {} THEN "OK" ELSE CHOOSE t \in S : \A u \in S : Severity(t) >= Severity(u)

TiersOf(msgs) == {msgs[i].risk_tier : i \in 1..Len(msgs)}

Exists(sid) == sid \in DOMAIN sessions

\* C1: a session is created ACTIVE, no call removes a session, and the only change
\* of status any call makes is ACTIVE -> ENDED: an ENDED session stays ENDED.
C1_StatusOneWay ==
    [][\A sid \in SessionIds :
        /\ (~Exists(sid) /\ sid \in DOMAIN sessions') => sessions'[sid].status = "ACTIVE"
        /\ Exists(sid) =>
            /\ sid \in DOMAIN sessions'
            /\ \/ sessions'[sid].status = sessions[sid].status
               \/ sessions[sid].status = "ACTIVE" /\ sessions'[sid].status = "ENDED"]_vars

\* an ended session with messages has been read again
C1_Witness ==
    /\ last.op = "summary" /\ last.outcome = "ok"
    /\ Exists(last.sid) /\ sessions[last.sid].status = "ENDED"
    /\ Len(messages[last.sid]) > 0

\* C2: appendMessage on an existing ENDED session raises SessionClosed and leaves
\* the session record, the history, the buffer and the metrics as they were.
C2_ClosedAppendPersistsNothing ==
    [][\A sid \in SessionIds :
        (last'.op = "append" /\ last'.sid = sid /\ Exists(sid) /\ sessions[sid].status = "ENDED")
            => (last'.outcome = "SessionClosed" /\ store' = store)]_vars

C2_Witness ==
    /\ last.op = "append" /\ last.outcome = "SessionClosed"
    /\ Len(messages[last.sid]) > 0
    /\ last.sid \in DOMAIN metrics

\* C3: appendMessage, endSession and getSummary on an id that has no record raise
\* SessionNotFound and leave every table of the storage as it was.
C3_NotFoundPersistsNothing ==
    [][(last'.op \in {"append", "end", "summary"} /\ ~Exists(last'.sid))
            => (last'.outcome = "SessionNotFound" /\ store' = store)]_vars

\* getSummary has failed on an id with no record while another session holds messages
C3_Witness ==
    /\ last.op = "summary" /\ last.outcome = "SessionNotFound"
    /\ \E other \in SessionIds \ {last.sid} : Exists(other) /\ Len(messages[other]) > 0

\* C4 as stated: activeRiskTier is the maximum tier over the messages appended so far.
C4_ActiveTierIsMax ==
    \A sid \in DOMAIN sessions :
        sessions[sid].active_risk_tier = MostSevere(TiersOf(messages[sid]))

\* C4 as amended: while the session is ACTIVE activeRiskTier is the tier of the
\* message appended last (OK before the first), so it may decrease; once the
\* session is ENDED it is the maximum tier over all its messages.
C4_ActiveTierLastWrite ==
    \A sid \in DOMAIN sessions :
        LET msgs == messages[sid]
        IN  IF sessions[sid].status = "ACTIVE"
            THEN sessions[sid].active_risk_tier =
                    (IF msgs = <<>> THEN "OK" ELSE msgs[Len(msgs)].risk_tier)
            ELSE sessions[sid].active_risk_tier = MostSevere(TiersOf(msgs))

\* an append has lowered the tier of an ACTIVE session below that of an earlier message
C4_Witness ==
    /\ last.op = "append" /\ last.outcome = "ok"
    /\ sessions[last.sid].status = "ACTIVE"
    /\ Severity(sessions[last.sid].active_risk_tier)
            < Severity(MostSevere(TiersOf(messages[last.sid])))

\* C5: a second endSession right after a successful one returns an equal summary,
\* changes nothing in the storage and leaves the status ENDED.
C5_EndIdempotent ==
    [][(last'.op = "end" /\ last'.again /\ last.outcome = "ok")
            => /\ last'.outcome = "ok"
               /\ last'.value = last.value
               /\ store' = store
               /\ sessions'[last'.sid].status = "ENDED"]_vars

\* endSession has been called twice in a row on a session with messages
C5_Witness ==
    /\ last.op = "end" /\ last.again /\ last.outcome = "ok"
    /\ Len(messages[last.sid]) > 1
    /\ last.value.notes # <<"Session marked as ended.">>

\* C6: the buffer snapshot holds the min(k, c) most recent of the k messages of the
\* history, oldest first, and never more than c.
C6_BufferInvariant ==
    \A sid \in DOMAIN buffers :
        LET k == Len(messages[sid])
            n == IF k <= BufferSize THEN k ELSE BufferSize
            b == buffers[sid].messages
        IN  /\ Len(b) = n
            /\ Len(b) <= buffers[sid].capacity
            /\ buffers[sid].capacity = BufferSize
            /\ \A i \in 1..n : b[i] = messages[sid][k - n + i]

\* an append has pushed the oldest message out of the buffer
C6_Witness ==
    /\ last.op = "append" /\ last.outcome = "ok"
    /\ Len(messages[last.sid]) > BufferSize
    /\ Len(buffers[last.sid].messages) = BufferSize
    /\ buffers[last.sid].messages[1] # messages[last.sid][1]

\* C7: stored metrics count every tier (zero-filled) and the counts add up to
\* messageCount.
C7_TierCountsSum ==
    \A sid \in DOMAIN metrics :
        LET tc == metrics[sid].tier_counts
        IN  /\ DOMAIN tc = {"OK", "CAUTION", "HIGH", "CRISIS"}
            /\ tc["OK"] + tc["CAUTION"] + tc["HIGH"] + tc["CRISIS"] = metrics[sid].message_count
            /\ metrics[sid].message_count = Len(messages[sid])

C7_Witness ==
    \E sid \in DOMAIN metrics :
        /\ metrics[sid].message_count = 3
        /\ metrics[sid].tier_counts["OK"] = 1
        /\ metrics[sid].tier_counts["HIGH"] = 1
        /\ metrics[sid].tier_counts["CRISIS"] = 1

\* the tiers of the adapters that returned an assessment during the staged call
AdapterTiers ==
    {cls.env.outs[i].result.tier :
        i \in {j \in 1..Len(config.adapters) : cls.env.outs[j].kind = "result"}}

\* C8: the tier assess returns is the most severe of the baseline tier and the tiers
\* of the adapters that returned an assessment, and the running tier never decreases
\* from one adapter to the next.
C8_EscalationIsMax ==
    [][/\ (cls.pc = "adapters" /\ cls'.pc = "adapters")
            => Severity(cls'.st.tier) >= Severity(cls.st.tier)
       /\ cls'.pc = "done"
            => /\ cls'.exc = None
               /\ cls'.result.tier = MostSevere({cls'.base.tier} \cup AdapterTiers)]_vars

\* a later adapter returned a milder tier than an earlier one, with a baseline
\* that is milder still
C8_Witness ==
    /\ cls.pc = "done"
    /\ Len(config.adapters) = 2
    /\ cls.base.tier = "CAUTION"
    /\ cls.env.outs[1].kind = "result" /\ cls.env.outs[1].result.tier = "CRISIS"
    /\ cls.env.outs[2].kind = "result" /\ cls.env.outs[2].result.tier = "HIGH"
    /\ cls.result.tier = "CRISIS"

\* the RAG module gave no assessment during the call `input`
RagUnavailable(input) == ~config.rag_module \/ input.env.raw.kind \in {"raise", "nondict"}

\* the assessments the adapters returned during the call `input`
AdapterResults(input) ==
    {input.env.outs[i].result :
        i \in {j \in 1..Len(config.adapters) : input.env.outs[j].kind = "result"}}

DiagnosticNotes == {"RAG risk module unavailable.", "RAG risk module error: ",
                    "RAG risk module returned an unexpected response."}

\* C9: appendMessage on an existing ACTIVE session returns and persists the message
\* whatever the RAG module and the adapters do; when the RAG module gives no
\* assessment the baseline is OK / 0.0 with a diagnostic note; no call raises
\* anything but SessionNotFound and SessionClosed.
C9_AppendAlwaysCompletes ==
    [][/\ last'.outcome \in {"ok", "SessionNotFound", "SessionClosed"}
       /\ \A sid \in SessionIds :
            (last'.op = "append" /\ last'.sid = sid /\ Exists(sid) /\ sessions[sid].status = "ACTIVE")
                => /\ last'.outcome = "ok"
                   /\ messages'[sid] = Append(messages[sid], last'.value.message)
                   /\ RagUnavailable(last'.input) =>
                        /\ last'.value.risk.notes # <<>>
                        /\ last'.value.risk.notes[1][1] \in DiagnosticNotes
                        /\ last'.value.risk.tier =
                                MostSevere({"OK"} \cup {a.tier : a \in AdapterResults(last'.input)})
                        /\ \A a \in AdapterResults(last'.input) : last'.value.risk.score >= a.score
                        /\ AdapterResults(last'.input) = {} => last'.value.risk.score = 0]_vars

\* the RAG module raised and the adapter raised, and the message is stored as OK
C9_Witness ==
    /\ last.op = "append" /\ last.outcome = "ok"
    /\ config.rag_module /\ last.input.env.raw.kind = "raise"
    /\ Len(config.adapters) = 1 /\ last.input.env.outs[1].kind = "raise"
    /\ Len(last.value.risk.notes) = 2
    /\ messages[last.sid][Len(messages[last.sid])].risk_tier = "OK"

\* C10: once every concurrent appendMessage has returned, the stored metrics and the
\* stored buffer are those recomputed from the stored messages.
C10_SerializedAppends ==
    AllReturned =>
        \A sid \in DOMAIN sessions :
            /\ sid \in DOMAIN metrics =>
                /\ metrics[sid].message_count = Len(messages[sid])
                /\ metrics[sid] = compute_metrics(messages[sid])
            /\ buffers[sid].messages = recent_messages(Db, sid, BufferSize)

\* C11: a call of the RAG entry point or of an adapter that has been made is
\* followed by the return of assess, also when the collaborator never returns.
C11_HangingCollaboratorReturns ==
    (cls.pc \in {"rag_call", "adapter_call"}) ~> (cls.pc = "done")

\* the call in `last` is a successful append of the user message "I feel hopeless and empty"
HopelessAppended ==
    /\ last.op = "append" /\ last.outcome = "ok"
    /\ last.input.req = UserRequest

\* the tier the RAG module gave during the call `input`, OK when it gave none
RagTier(input) ==
    IF RagUnavailable(input) THEN "OK"
    ELSE tier_from_label(IF Falsy(input.env.raw.risk_level)
                         THEN input.env.raw.tier ELSE input.env.raw.risk_level)

\* the keywords are flagged and the sentiment is in the NEGATIVE band
HopelessFlaggedNegative ==
    /\ {"hopeless", "empty"} \subseteq last.value.risk.flagged_keywords
    /\ {"hopeless", "empty"} \subseteq last.value.message.flagged_keywords
    /\ sentiment_band_from_score(last.value.message.sentiment_score) = "NEGATIVE"
    /\ last.value.metrics.band_counts["NEGATIVE"] >= 1

\* C12 as stated: appending "I feel hopeless and empty" returns a tier of at least
\* CAUTION, flags "hopeless" and "empty" and gives a NEGATIVE sentiment, whatever
\* the RAG module and the adapters are.
C12_HopelessAtLeastCaution ==
    HopelessAppended =>
        /\ Severity(last.value.risk.tier) >= Severity("CAUTION")
        /\ HopelessFlaggedNegative

\* C12 as amended: the keywords are flagged and the sentiment is NEGATIVE, and the
\* tier is the most severe of the RAG module's tier (OK when it gives none) and the
\* adapters' tiers: the keywords do not raise it.
C12_HopelessTierFromCollaborators ==
    HopelessAppended =>
        /\ HopelessFlaggedNegative
        /\ last.value.risk.tier =
                MostSevere({RagTier(last.input)} \cup {a.tier : a \in AdapterResults(last.input)})

\* the message is appended by the default tracker (no RAG module, no adapter) and
\* comes back with tier OK and both keywords flagged
C12_Witness ==
    /\ HopelessAppended
    /\ ~config.rag_module /\ config.adapters = <<>>
    /\ last.value.risk.tier = "OK"
    /\ last.value.risk.flagged_keywords = {"hopeless", "empty"}
    /\ Len(messages[last.sid]) = 1

SustainedNote == "Sustained elevated risk across last three turns."

\* C13: the stored trend notes hold the sustained-risk note exactly when the
\* history has at least three messages and its last three are all CAUTION or above.
C13_SustainedNeedsThree ==
    \A sid \in DOMAIN metrics :
        LET msgs == messages[sid]
            n == Len(msgs)
        IN  (SustainedNote \in Range(metrics[sid].trend_notes))
                <=> (/\ n >= 3
                     /\ \A i \in (n - 2)..n : msgs[i].risk_tier \in {"CAUTION", "HIGH", "CRISIS"})

\* the resources the keyword table gives for a set of keywords
MatchedResources(keywords) == {RESOURCE_MAP[k] : k \in keywords \cap DOMAIN RESOURCE_MAP}

Hotlines(resources) == {r \in resources : r.type = "hotline"}

\* C14: suggest_resources returns the matched resources, plus the default 988 hotline
\* exactly when the tier is HIGH or CRISIS and no matched resource is a hotline; so
\* metrics whose max_risk_tier is HIGH or CRISIS suggest at least one hotline, and
\* with tier OK or CAUTION nothing is added to the matched resources.
C14_DefaultHotline ==
    /\ cls.pc = "suggested" =>
        LET matched == MatchedResources(cls.keywords)
            elevated == cls.tier \in {"HIGH", "CRISIS"}
        IN  /\ (elevated /\ Hotlines(matched) = {}) => cls.result = matched \cup {DefaultHotline}
            /\ ~(elevated /\ Hotlines(matched) = {}) => cls.result = matched
            /\ elevated => Hotlines(cls.result) # {}
    /\ cls.pc = "computed" =>
        LET flagged == UNION {cls.msgs[i].flagged_keywords : i \in 1..Len(cls.msgs)}
            worst == MostSevere(TiersOf(cls.msgs))
        IN  /\ cls.result.max_risk_tier = worst
            /\ worst \in {"HIGH", "CRISIS"} => Hotlines(cls.result.suggested_resources) # {}
            /\ worst \in {"OK", "CAUTION"} =>
                    cls.result.suggested_resources = MatchedResources(flagged)

\* "lonely" with tier HIGH: the peer-support resource and the default hotline
C14_Witness ==
    /\ cls.pc = "suggested"
    /\ cls.keywords = {"lonely"} /\ cls.tier = "HIGH"
    /\ cls.result = {RESOURCE_MAP["lonely"], DefaultHotline}

\* +1 for a positive word, -1 for a negative word, 0 for any other token
LexiconSign(tok) ==
    IF tok \in POSITIVE_WORDS THEN 1 ELSE IF tok \in NEGATIVE_WORDS THEN -1 ELSE 0

\* the token at i, i counted from 1, is preceded by a negation
Negated(toks, i) == i > 1 /\ toks[i - 1] \in NEGATIONS

\* C15: each lexicon token counts +1 or -1, inverted exactly when the token right
\* before it is a negation; the score is the sum over the number of lexicon tokens
\* (to three decimals; 0 when there is none) and the band is POSITIVE above 0.1,
\* NEGATIVE below -0.1, NEUTRAL otherwise; "not calm" is negative, "calm" positive.
C15_NegationAwareScore ==
    cls.pc = "scored" =>
        LET toks == Tokens(cls.text)
            sum == SumSeq([i \in 1..Len(toks) |->
                        IF Negated(toks, i) THEN 0 - LexiconSign(toks[i]) ELSE LexiconSign(toks[i])])
            count == Cardinality({i \in 1..Len(toks) : LexiconSign(toks[i]) # 0})
            diff == cls.result.score * count - 1000 * sum
        IN  /\ count = 0 => cls.result.score = 0
            /\ 2 * diff <= count /\ 2 * diff >= 0 - count
            /\ cls.result.band = (IF count > 0 /\ 10 * sum > count THEN "POSITIVE"
                                  ELSE IF count > 0 /\ 10 * sum < 0 - count THEN "NEGATIVE"
                                  ELSE "NEUTRAL")
            /\ toks = <<"not", "calm">> => cls.result.score < 0
            /\ toks = <<"calm">> => cls.result.score > 0

\* "not Calm" has been scored: -1.0, NEGATIVE
C15_Witness ==
    /\ cls.pc = "scored"
    /\ cls.text = <<"not", "Calm">>
    /\ cls.result.score = -1000
    /\ cls.result.band = "NEGATIVE"

\* the recent tier histories a session may have when a message is appended
TierHistories == UNION {[1..n -> Tiers] : n \in 0..BufferSize}

\* C16: the tier, score and flagged keywords of an appended message are those assess
\* gives for the same content, RAG response and adapter results under any other
\* recent tier history: the session's earlier messages do not enter the assessment.
C16_HistoryIndependent ==
    (last.op = "append" /\ last.outcome = "ok") =>
        \A h \in TierHistories :
            LET content == last.input.req.content
                other == assess(content, score(content), h, config, last.input.env).risk
            IN  /\ other.tier = last.value.risk.tier
                /\ other.score = last.value.risk.score
                /\ other.flagged_keywords = last.value.risk.flagged_keywords

\* a message comes back OK in a session whose earlier message is HIGH, while the
\* other session has no message
C16_Witness ==
    /\ last.op = "append" /\ last.outcome = "ok"
    /\ Len(messages[last.sid]) >= 2
    /\ messages[last.sid][1].risk_tier = "HIGH"
    /\ last.value.risk.tier = "OK"
    /\ \E other \in SessionIds \ {last.sid} : Exists(other) /\ messages[other] = <<>>

\* C17: after a successful append the session's activeRiskTier is the tier of the
\* message just appended, also when an earlier message was more severe.
C17_AppendSetsLastTier ==
    (last.op = "append" /\ last.outcome = "ok") =>
        /\ sessions[last.sid].active_risk_tier = last.value.message.risk_tier
        /\ sessions[last.sid].active_risk_tier = last.value.risk.tier
        /\ messages[last.sid][Len(messages[last.sid])] = last.value.message

\* the message just appended is OK, an earlier one is HIGH, and the record says OK
C17_Witness ==
    /\ last.op = "append" /\ last.outcome = "ok"
    /\ sessions[last.sid].active_risk_tier = "OK"
    /\ \E i \in 1..(Len(messages[last.sid]) - 1) : messages[last.sid][i].risk_tier = "HIGH"

\* C18: an ENDED session's activeRiskTier is the most severe tier of its messages
\* (OK when it has none) and equals the stored metrics' max_risk_tier.
C18_EndedTierIsMax ==
    \A sid \in DOMAIN sessions :
        sessions[sid].status = "ENDED" =>
            /\ sessions[sid].active_risk_tier = MostSevere(TiersOf(messages[sid]))
            /\ sid \in DOMAIN metrics
            /\ sessions[sid].active_risk_tier = metrics[sid].max_risk_tier

\* endSession has raised the tier of a session whose last message is OK to the HIGH
\* of an earlier message
C18_Witness ==
    /\ last.op = "end" /\ last.outcome = "ok" /\ ~last.again
    /\ sessions[last.sid].status = "ENDED"
    /\ sessions[last.sid].active_risk_tier = "HIGH"
    /\ Len(messages[last.sid]) >= 2
    /\ messages[last.sid][Len(messages[last.sid])].risk_tier = "OK"

\* C19: stored metrics are the metrics recomputed from the session's current history,
\* and getSummary returns those metrics and the union of the history's flagged
\* keywords, whether it took them from the store or recomputed them.
C19_MetricsAreRecomputation ==
    /\ \A sid \in DOMAIN metrics : metrics[sid] = compute_metrics(messages[sid])
    /\ (last.op = "summary" /\ last.outcome = "ok") =>
        /\ last.value.metrics = compute_metrics(messages[last.sid])
        /\ last.value.flagged_keywords =
                UNION {messages[last.sid][i].flagged_keywords : i \in 1..Len(messages[last.sid])}

\* getSummary has returned the stored metrics of a session whose history no longer
\* fits the buffer
C19_Witness ==
    /\ last.op = "summary" /\ last.outcome = "ok"
    /\ Len(messages[last.sid]) > BufferSize
    /\ last.value.metrics.message_count = Len(messages[last.sid])
    /\ last.value.metrics.tier_counts["HIGH"] >= 1

\* C20: once a session is ENDED no step inserts a message into its history or
\* changes its activeRiskTier, which stays the most severe tier of the history,
\* also when append_message and end_session run concurrently.
C20_EndedIsTerminal ==
    [][\A sid \in DOMAIN sessions :
        sessions[sid].status = "ENDED" =>
            /\ messages'[sid] = messages[sid]
            /\ sessions'[sid].active_risk_tier = sessions[sid].active_risk_tier
            /\ sessions'[sid].active_risk_tier = MostSevere(TiersOf(messages'[sid]))]_vars

\* C21: after an append_message was interrupted once its message was persisted,
\* the next append_message or end_session that completes on the session leaves the
\* persisted buffer and metrics equal to those recomputed from the whole persisted
\* history. The state right after such a call is the one `last` describes.
C21_InterruptedAppendRepaired ==
    (last.op \in {"append", "end"} /\ last.outcome = "ok") =>
        /\ buffers[last.sid] = BufferSnapshot(recent_messages(Db, last.sid, BufferSize))
        /\ metrics[last.sid] = compute_metrics(list_messages(Db, last.sid))

\* the part of C21 the code keeps: the metrics after either call, the buffer after
\* an append_message
C21_MetricsRepaired ==
    (last.op \in {"append", "end"} /\ last.outcome = "ok") =>
        /\ metrics[last.sid] = compute_metrics(list_messages(Db, last.sid))
        /\ last.op = "append" =>
                buffers[last.sid] = BufferSnapshot(recent_messages(Db, last.sid, BufferSize))

\* the tiers of the buffer_size records before the last one of a history
TiersBefore(msgs) ==
    LET recent == SubSeq(msgs, Max(1, Len(msgs) - BufferSize), Len(msgs) - 1)
    IN  [i \in 1..Len(recent) |-> recent[i].risk_tier]

\* C22: the message history of a session is append-only. A successful
\* append_message extends the history of its session by exactly one record, placed
\* at the end, that carries the sender and content of the request and the sentiment
\* score, tier, risk score and flagged keywords computed for it; every other step
\* (a failed append_message, create_session, end_session, get_summary, get_buffer,
\* and any call on another session) leaves every history as it was.
C22_HistoryAppendOnly ==
    [][\A sid \in SessionIds :
        IF last'.op = "append" /\ last'.outcome = "ok" /\ last'.sid = sid
        THEN LET req == last'.input.req
                 new == messages'[sid]
                 rec == new[Len(new)]
                 sentiment == score(req.content)
                 risk == assess(req.content, sentiment, TiersBefore(new), config,
                                last'.input.env).risk
             IN  /\ new = Append(messages[sid], rec)
                 /\ rec.sender = req.sender
                 /\ rec.content = req.content
                 /\ rec.sentiment_score = sentiment.score
                 /\ rec.risk_tier = risk.tier
                 /\ rec.risk_score = risk.score
                 /\ rec.flagged_keywords = risk.flagged_keywords
        ELSE messages'[sid] = messages[sid]]_vars

\* a successful append_message put a record with flagged keywords after an older one
C22_Witness ==
    /\ last.op = "append" /\ last.outcome = "ok"
    /\ Len(messages[last.sid]) >= 2
    /\ messages[last.sid][Len(messages[last.sid])].flagged_keywords # {}
    /\ messages[last.sid][Len(messages[last.sid])] = last.value.message

\* the positions of the adapters that did not raise, in order
Survivors(outs) == SelectSeq([i \in 1..Len(outs) |-> i], LAMBDA i : outs[i].kind # "raise")

\* the same call with the raising adapters taken out of the list
WithoutRaising(cfg, env) ==
    LET keep == Survivors(env.outs)
    IN  [cfg |-> [cfg EXCEPT !.adapters = [j \in 1..Len(keep) |-> cfg.adapters[keep[j]]]],
         env |-> [env EXCEPT !.outs = [j \in 1..Len(keep) |-> env.outs[keep[j]]]]]

FailureNotes(notes, name) ==
    {k \in 1..Len(notes) : notes[k] = Note("Adapter failed: ", name)}

\* C23: adapters are isolated from one another. When assess has returned, no
\* adapter's exception has left the loop (so every adapter after a raising one was
\* invoked), the tier, score and flagged keywords are those of the same call with
\* the raising adapters removed from the list, every raising adapter has exactly
\* one note naming it, and the other notes are those of the call without them.
C23_AdaptersIsolated ==
    cls.pc = "done" =>
        LET without == WithoutRaising(config, cls.env)
            alone == assess(cls.text, score(cls.text), <<>>, without.cfg, without.env)
            IsFailure(n) == \E i \in 1..Len(config.adapters) :
                                n = Note("Adapter failed: ", config.adapters[i])
        IN  /\ cls.exc = None
            /\ alone.exc = None
            /\ cls.result.tier = alone.risk.tier
            /\ cls.result.score = alone.risk.score
            /\ cls.result.flagged_keywords = alone.risk.flagged_keywords
            /\ \A i \in 1..Len(config.adapters) :
                    Cardinality(FailureNotes(cls.result.notes, config.adapters[i])) =
                        (IF cls.env.outs[i].kind = "raise" THEN 1 ELSE 0)
            /\ SelectSeq(cls.result.notes, LAMBDA n : ~IsFailure(n)) = alone.risk.notes

\* the first adapter raised and the second one escalated the baseline's tier
C23_Witness ==
    /\ cls.pc = "done"
    /\ Len(config.adapters) = 2
    /\ cls.env.outs[1].kind = "raise"
    /\ cls.env.outs[2].kind = "result"
    /\ cls.result.tier = cls.env.outs[2].result.tier
    /\ cls.result.tier # cls.base.tier
    /\ cls.result.flagged_keywords # cls.base.flagged

\* C24: local keyword and phrase extraction never changes tier or score. When
\* assess has returned, the same external-model response and the same adapter
\* results give every other text (with or without crisis phrases, high-severity or
\* caution keywords) the same tier, score and notes; the flagged keywords differ
\* by the terms extracted from the two texts and hold those of the text assessed.
C24_KeywordsLeaveTierAndScore ==
    cls.pc = "done" =>
        /\ extract_keywords(cls.text) \subseteq cls.result.flagged_keywords
        /\ \A other \in AssessTexts :
            LET risk == assess(other, score(other), <<>>, config, cls.env).risk
            IN  /\ risk.tier = cls.result.tier
                /\ risk.score = cls.result.score
                /\ risk.notes = cls.result.notes
                /\ risk.flagged_keywords \cup extract_keywords(cls.text)
                        = cls.result.flagged_keywords \cup extract_keywords(other)

\* a text with a crisis phrase and a high-severity keyword was assessed OK with
\* score 0, the phrase and the keyword flagged
C24_Witness ==
    /\ cls.pc = "done"
    /\ {"want to die", "die"} \subseteq cls.result.flagged_keywords
    /\ cls.result.tier = "OK"
    /\ cls.result.score = 0
    /\ \E other \in AssessTexts : extract_keywords(other) = {}

\* C25: metrics.max_risk_tier is the highest tier ever observed in the history.
\* After every step, the stored metrics of a session give OK when its history is
\* empty and otherwise the most severe tier carried by at least one message, which
\* is at least the tier of every message; and the stored value never becomes less
\* severe from one state to the next.
C25_MaxTierIsHistoryMax ==
    [][/\ \A sid \in DOMAIN metrics' :
            LET m == metrics'[sid].max_risk_tier
                history == messages'[sid]
            IN  /\ history = <<>> => m = "OK"
                /\ history # <<>> => \E i \in 1..Len(history) : history[i].risk_tier = m
                /\ \A i \in 1..Len(history) :
                        Severity(m) >= Severity(history[i].risk_tier)
       /\ \A sid \in DOMAIN metrics :
            /\ sid \in DOMAIN metrics'
            /\ Severity(metrics'[sid].max_risk_tier) >= Severity(metrics[sid].max_risk_tier)
      ]_vars

\* the history went CRISIS, then OK, and the stored maximum is still CRISIS while
\* the last message is OK
C25_Witness ==
    \E sid \in DOMAIN metrics :
        /\ Len(messages[sid]) >= 2
        /\ messages[sid][Len(messages[sid])].risk_tier = "OK"
        /\ \E i \in 1..Len(messages[sid]) : messages[sid][i].risk_tier = "CRISIS"
        /\ metrics[sid].max_risk_tier = "CRISIS"

\* the rows a session has in the four tables; a missing row is told from any row
RowsOf(db, sid) ==
    [session |-> IF sid \in DOMAIN db.sessions THEN <<db.sessions[sid]>> ELSE <<>>,
     history |-> db.messages[sid],
     buffer  |-> IF sid \in DOMAIN db.buffers THEN <<db.buffers[sid]>> ELSE <<>>,
     metrics |-> IF sid \in DOMAIN db.metrics THEN <<db.metrics[sid]>> ELSE <<>>]

\* C26: sessions are isolated from each other. Every call (create_session,
\* append_message, end_session, get_summary, and get_buffer), whether it returns
\* or raises, leaves the session record, the message history, the buffer snapshot
\* and the metrics of every session other than its target as they were.
C26_SessionsIsolated ==
    [][\A sid \in SessionIds \ {last'.sid} : RowsOf(Db, sid)' = RowsOf(Db, sid)]_vars

\* an append_message succeeded on one session while another session, ended, holds
\* a history and metrics of its own
C26_Witness ==
    /\ last.op = "append" /\ last.outcome = "ok"
    /\ \E other \in DOMAIN sessions \ {last.sid} :
            /\ sessions[other].status = "ENDED"
            /\ sessions[last.sid].status = "ACTIVE"
            /\ messages[other] # <<>>
            /\ other \in DOMAIN metrics
            /\ metrics[other] # metrics[last.sid]
            /\ buffers[other] # buffers[last.sid]

\* C27: get_summary is read-only with respect to the system of record. A
\* get_summary call, returning or raising, leaves every session record (status,
\* active_risk_tier, timestamps), every message history and every buffer snapshot
\* as they were and changes no metrics entry that exists; the only row it may
\* write is the metrics of its own session when that session has none, and the
\* row written is the recomputation from the current history. The notes of the
\* summary returned hold "Session marked as ended." exactly when the session's
\* status is ENDED.
C27_SummaryReadOnly ==
    [][last'.op = "summary" =>
        /\ sessions' = sessions
        /\ messages' = messages
        /\ buffers' = buffers
        /\ \A sid \in DOMAIN metrics : sid \in DOMAIN metrics' /\ metrics'[sid] = metrics[sid]
        /\ \A sid \in DOMAIN metrics' \ DOMAIN metrics :
                /\ sid = last'.sid
                /\ last'.outcome = "ok"
                /\ metrics'[sid] = compute_metrics(messages[sid])
        /\ last'.outcome = "ok" =>
                /\ last'.sid \in DOMAIN metrics'
                /\ last'.value.session = sessions[last'.sid]
                /\ ("Session marked as ended." \in Range(last'.value.notes))
                        <=> (sessions[last'.sid].status = "ENDED")
      ]_vars

\* get_summary returned the notes of an ENDED session with its marker, and another
\* session, ACTIVE and never written since its creation, has the metrics that only
\* a get_summary can have given it
C27_Witness ==
    /\ last.op = "summary" /\ last.outcome = "ok"
    /\ sessions[last.sid].status = "ENDED"
    /\ messages[last.sid] # <<>>
    /\ "Session marked as ended." \in Range(last.value.notes)
    /\ \E other \in DOMAIN metrics \ {last.sid} :
            /\ sessions[other].status = "ACTIVE"
            /\ sessions[other].updated_at = 0
            /\ metrics[other].message_count = 0

====
